---- MODULE Spec2Model ----
(***************************************************************************)
(* A model of advanced-vector/vector.h: RawMemory<T> (an owned block of    *)
(* uninitialized slots) and Vector<T> (RawMemory plus a count of live      *)
(* elements).  Every public operation of Vector is one atomic action; the  *)
(* element type's fallible operations (allocation, construction,           *)
(* assignment) may throw at a chosen step of the operation.                *)
(***************************************************************************)
EXTENDS Integers, Sequences, FiniteSets, TLC

\* ------------------------------------------------------------------ bounds
\* The largest count a caller passes to Vector(n), Reserve and Resize.
MaxCap == 3
\* The slots the allocator has to hand out, over all blocks, to a program
\* with two Vectors, to one with a single Vector and to one with a Vector
\* and a source it copies; a request that does not fit throws std::bad_alloc.
MemSlots == 3
MemSlotsOne == 6
MemSlotsPair == 5
\* Element values are 0..MaxVal; 0 is the value-initialized element T().
MaxVal == 1
\* The fallible step of a call that throws is one of 1..MaxFail (0: none).
MaxFail == 5

\* ------------------------------------------------------------------ encoding
\* A slot of raw memory that holds no object.
Uninit == -1
\* A live object whose value was moved out of it.
Moved == -2
\* T(): the value-initialized element.
DefaultValue == 0

Values == 0..MaxVal
Objects == Values \cup {Moved}
VecIds == {1, 2}
\* The blocks a call can touch: none (a null buffer_), the block of the
\* Vector it is made on, the block of a local RawMemory or Vector
\* (new_data, rhs_copy) and the block of the other Vector (rhs, other).
Null == 0
Cur == 1
New == 2
Src == 3
\* The three kinds of element type the compile-time dispatch distinguishes.
Traits == {"nothrow_move", "copy_fallback", "move_only"}

VARIABLES
    traits,   \* the element type's capabilities (fixed for a run)
    mem,      \* the slots the allocator has to hand out (fixed for a run)
    vec,      \* vec[i]: the Vector object i: alive, the slots of data_.buffer_,
              \* data_.capacity_ and size_
    used,     \* the slots of all blocks allocated and not deallocated
    ref,      \* ref[i]: the reference list replayed alongside Vector i
    lastOp    \* the last call: its name, arguments, outcome and what it did

vars == <<traits, mem, vec, used, ref, lastOp>>

\* ------------------------------------------------------------------ the element type
\* std::is_copy_constructible_v<T>
CopyConstructible == traits # "move_only"
\* std::is_nothrow_move_constructible_v<T>
NothrowMove == traits = "nothrow_move"
\* The transfer policy of a reallocation.
TransferByMove == NothrowMove \/ ~CopyConstructible

\* ------------------------------------------------------------------ the machine
\* The running state of one call on a Vector with block cur, with the other
\* Vector's block src: the blocks, the allocator's count, the countdown to
\* the step that throws, and the call's bookkeeping.
Machine(cur, src, f) ==
    [h |-> <<cur, <<>>, src>>, used |-> used, f |-> f, st |-> "ok", ub |-> {},
     allocs |-> 0, frees |-> 0, ctors |-> 0, dtors |-> 0, assigns |-> 0, lost |-> 0]

Ok(m) == m.st = "ok"
Throw(m) == [m EXCEPT !.st = "threw", !.f = 0]
\* A fallible step throws when the countdown stands at 1.
Fails(m, fallible) == fallible /\ m.f = 1
Tick(m, fallible) == IF fallible /\ m.f > 0 THEN m.f - 1 ELSE m.f
Flag(m, what) == [m EXCEPT !.ub = @ \cup {what}]

LiveIn(s) == Cardinality({k \in 1..Len(s) : s[k] # Uninit})

\* RawMemory(size_t capacity) of a local object, with RawMemory::Allocate:
\* operator new(n * sizeof(T)), nullptr for n = 0.
Allocate(m, n) ==
    IF ~Ok(m) \/ n = 0 THEN m
    ELSE IF Fails(m, TRUE) \/ m.used + n > mem THEN Throw(m)
    ELSE [m EXCEPT !.h[New] = [k \in 1..n |-> Uninit], !.used = @ + n,
                   !.f = Tick(m, TRUE), !.allocs = @ + 1]

\* The buffer_ of the local RawMemory after its construction with capacity n.
Allocated(m, n) == IF Ok(m) /\ n # 0 THEN New ELSE Null

\* RawMemory::Deallocate: operator delete(buf); objects still alive in the
\* block are lost without their destructor having run.
Deallocate(m, b) ==
    IF b = Null THEN m
    ELSE [m EXCEPT !.h[b] = <<>>, !.used = @ - Len(m.h[b]), !.frees = @ + 1,
                   !.lost = @ + LiveIn(m.h[b])]

InBlock(m, b, k) == b # Null /\ k >= 0 /\ k < Len(m.h[b])

\* new (p) T(val): placement construction at slot k of block b.
ConstructAt(m, b, k, val, fallible) ==
    IF ~Ok(m) THEN m
    ELSE IF Fails(m, fallible) THEN Throw(m)
    ELSE [m EXCEPT !.h[b][k + 1] = val, !.f = Tick(m, fallible), !.ctors = @ + 1,
                   !.lost = @ + (IF m.h[b][k + 1] # Uninit THEN 1 ELSE 0)]

\* std::destroy_at(p): the destructor of the object at slot k of block b.
DestroyAt(m, b, k) ==
    IF ~InBlock(m, b, k) THEN Flag(m, "destroy_out_of_block")
    ELSE IF m.h[b][k + 1] = Uninit THEN Flag(m, "destroy_uninitialized")
    ELSE [m EXCEPT !.h[b][k + 1] = Uninit, !.dtors = @ + 1]

\* std::destroy_n(p, n) with p at slot k of block b.
RECURSIVE DestroyN(_, _, _, _)
DestroyN(m, b, k, n) ==
    IF n <= 0 THEN m ELSE DestroyN(DestroyAt(m, b, k), b, k + 1, n - 1)

\* std::uninitialized_copy_n(src, n, dst): done counts the elements already
\* constructed, which are destroyed again when a copy throws.
RECURSIVE UninitializedCopyN(_, _, _, _, _, _, _)
UninitializedCopyN(m, sb, sk, n, db, dk, done) ==
    IF ~Ok(m) \/ done >= n THEN m
    ELSE IF Fails(m, TRUE) THEN Throw(DestroyN(m, db, dk, done))
    ELSE UninitializedCopyN(
             ConstructAt(m, db, dk + done, m.h[sb][sk + done + 1], TRUE),
             sb, sk, n, db, dk, done + 1)

\* std::uninitialized_move_n(src, n, dst): as the copy, with each source
\* left in its moved-from state.
RECURSIVE UninitializedMoveN(_, _, _, _, _, _, _)
UninitializedMoveN(m, sb, sk, n, db, dk, done) ==
    IF ~Ok(m) \/ done >= n THEN m
    ELSE IF Fails(m, ~NothrowMove) THEN Throw(DestroyN(m, db, dk, done))
    ELSE LET m1 == ConstructAt(m, db, dk + done, m.h[sb][sk + done + 1], ~NothrowMove) IN
         UninitializedMoveN([m1 EXCEPT !.h[sb][sk + done + 1] = Moved],
                            sb, sk, n, db, dk, done + 1)

\* std::uninitialized_value_construct_n(p, n): T() in each slot, destroyed
\* again when one throws.
RECURSIVE UninitializedValueConstructN(_, _, _, _, _)
UninitializedValueConstructN(m, b, k, n, done) ==
    IF ~Ok(m) \/ done >= n THEN m
    ELSE IF Fails(m, TRUE) THEN Throw(DestroyN(m, b, k, done))
    ELSE UninitializedValueConstructN(
             ConstructAt(m, b, k + done, DefaultValue, TRUE), b, k, n, done + 1)

\* *dst = src (copy assignment) at slot dk of block db.
CopyAssignAt(m, db, dk, val) ==
    IF ~Ok(m) THEN m
    ELSE IF Fails(m, TRUE) THEN Throw(m)
    ELSE [m EXCEPT !.h[db][dk + 1] = val, !.f = Tick(m, TRUE), !.assigns = @ + 1]

\* *dst = std::move(src) between two slots of block b.
MoveAssignAt(m, b, dk, sk) ==
    IF ~Ok(m) THEN m
    ELSE IF Fails(m, ~NothrowMove) THEN Throw(m)
    ELSE [m EXCEPT !.h[b][dk + 1] = m.h[b][sk + 1], !.h[b][sk + 1] = Moved,
                   !.f = Tick(m, ~NothrowMove), !.assigns = @ + 1]

\* std::copy_n(src, n, dst): element-wise copy assignment, front to back.
RECURSIVE CopyN(_, _, _, _, _, _, _)
CopyN(m, sb, sk, n, db, dk, done) ==
    IF ~Ok(m) \/ done >= n THEN m
    ELSE CopyN(CopyAssignAt(m, db, dk + done, m.h[sb][sk + done + 1]),
               sb, sk, n, db, dk, done + 1)

\* std::move(first, last, d_first) inside block b: front to back.
RECURSIVE MoveRange(_, _, _, _, _)
MoveRange(m, b, first, last, dfirst) ==
    IF ~Ok(m) \/ first >= last THEN m
    ELSE MoveRange(MoveAssignAt(m, b, dfirst, first), b, first + 1, last, dfirst + 1)

\* std::move_backward(first, last, d_last) inside block b: back to front.
\* A range with last before first is not a valid range.
RECURSIVE MoveBackward(_, _, _, _, _)
MoveBackward(m, b, first, last, dlast) ==
    IF ~Ok(m) THEN m
    ELSE IF last < first THEN Flag(m, "invalid_range")
    ELSE IF first = last THEN m
    ELSE MoveBackward(MoveAssignAt(m, b, dlast - 1, last - 1), b, first, last - 1, dlast - 1)

\* ------------------------------------------------------------------ arguments
\* The argument of PushBack / Insert / Emplace / EmplaceBack: kind "copy" is
\* a const T&, "move" a T&&, "args" constructor arguments. k >= 0 says the
\* reference is to element k of the vector the call is made on; k < 0 that
\* it is to an object outside of it, of value val.
ArgValue(m, v, a) == IF a.k < 0 THEN a.val ELSE m.h[v.buf][a.k + 1]
ArgFallible(a) == IF a.kind = "move" THEN ~NothrowMove ELSE TRUE
\* The source of a move construction is left moved-from.
ArgConsumed(m, v, a) ==
    IF Ok(m) /\ a.kind = "move" /\ a.k >= 0 THEN [m EXCEPT !.h[v.buf][a.k + 1] = Moved] ELSE m

\* new (db + dk) T(std::forward<Args>(args)...)
ConstructFromArg(m, v, a, db, dk) ==
    IF ~Ok(m) THEN m
    ELSE ArgConsumed(ConstructAt(m, db, dk, ArgValue(m, v, a), ArgFallible(a)), v, a)

\* ------------------------------------------------------------------ Vector, private
\* Vector::Destroy
Destroy(m, v) == DestroyN(m, v.buf, 0, v.size)

\* A Reallocate that moves the elements whatever the element type is.
ReallocateByMove(m, v, nb) == UninitializedMoveN(m, v.buf, 0, v.size, nb, 0, 0)

\* Vector::Reallocate
Reallocate(m, v, nb) ==
    IF TransferByMove THEN UninitializedMoveN(m, v.buf, 0, v.size, nb, 0, 0)
    ELSE UninitializedCopyN(m, v.buf, 0, v.size, nb, 0, 0)

\* A growth by one slot instead of a doubling.
GrowthByOne(v) == v.size + 1

\* size_ == 0 ? 1 : size_ * 2
GrowthCapacity(v) == IF v.size = 0 THEN 1 ELSE v.size * 2

\* The end of a growth: on success Destroy(), data_.Swap(new_data) and the
\* destructor of new_data (now the old block); when a step threw, only the
\* destructor of new_data (the new block).
Adopt(m, v, nb, ncap, nsize) ==
    IF ~Ok(m) THEN [m |-> Deallocate(m, nb), v |-> v]
    ELSE [m |-> Deallocate(Destroy(m, v), v.buf),
          v |-> [v EXCEPT !.buf = nb, !.cap = ncap, !.size = nsize]]

\* ------------------------------------------------------------------ Vector, public
DeadVector == [alive |-> FALSE, buf |-> Null, cap |-> 0, size |-> 0]
\* Vector() = default
EmptyVector == [alive |-> TRUE, buf |-> Null, cap |-> 0, size |-> 0]

\* explicit Vector(size_t size)
ConstructNOp(m, n) ==
    LET m1 == Allocate(m, n)
        nb == Allocated(m1, n)
        m2 == UninitializedValueConstructN(m1, nb, 0, n, 0)
    IN IF Ok(m2) THEN [m |-> m2, v |-> [alive |-> TRUE, buf |-> nb, cap |-> n, size |-> n]]
       ELSE [m |-> Deallocate(m2, nb), v |-> DeadVector]

\* A copy constructor that allocates the capacity of the source, not its size.
CopyConstructKeepCapacity(m, o) ==
    LET m1 == Allocate(m, o.cap)
        nb == Allocated(m1, o.cap)
        m2 == UninitializedCopyN(m1, o.buf, 0, o.size, nb, 0, 0)
    IN IF Ok(m2) THEN [m |-> m2,
                       v |-> [alive |-> TRUE, buf |-> nb, cap |-> o.cap, size |-> o.size]]
       ELSE [m |-> Deallocate(m2, nb), v |-> DeadVector]

\* Vector(const Vector& other)
CopyConstructOp(m, o) ==
    LET m1 == Allocate(m, o.size)
        nb == Allocated(m1, o.size)
        m2 == UninitializedCopyN(m1, o.buf, 0, o.size, nb, 0, 0)
    IN IF Ok(m2) THEN [m |-> m2,
                       v |-> [alive |-> TRUE, buf |-> nb, cap |-> o.size, size |-> o.size]]
       ELSE [m |-> Deallocate(m2, nb), v |-> DeadVector]

\* ~Vector(): Destroy(), then ~RawMemory()
DestructOp(m, v) == [m |-> Deallocate(Destroy(m, v), v.buf), v |-> DeadVector]

\* A Reserve that allocates one slot more than it was asked for.
ReserveOneMore(m, v, n) ==
    IF n <= v.cap THEN [m |-> m, v |-> v]
    ELSE LET m1 == Allocate(m, n + 1)
             nb == Allocated(m1, n + 1)
             m2 == Reallocate(m1, v, nb)
         IN Adopt(m2, v, nb, n + 1, v.size)

\* Vector::Reserve
ReserveOp(m, v, n) ==
    IF n <= v.cap THEN [m |-> m, v |-> v]
    ELSE LET m1 == Allocate(m, n)
             nb == Allocated(m1, n)
             m2 == Reallocate(m1, v, nb)
         IN Adopt(m2, v, nb, n, v.size)

\* A Resize that lowers size_ without destroying the elements beyond it.
ResizeNoDestroy(m, v, n) ==
    IF v.size = n THEN [m |-> m, v |-> v]
    ELSE IF n < v.size THEN [m |-> m, v |-> [v EXCEPT !.size = n]]
    ELSE LET r == ReserveOp(m, v, n)
             m2 == UninitializedValueConstructN(r.m, r.v.buf, v.size, n - v.size, 0)
         IN [m |-> m2, v |-> IF Ok(m2) THEN [r.v EXCEPT !.size = n] ELSE r.v]

\* Vector::Resize
ResizeOp(m, v, n) ==
    IF v.size = n THEN [m |-> m, v |-> v]
    ELSE IF n < v.size
         THEN [m |-> DestroyN(m, v.buf, n, v.size - n), v |-> [v EXCEPT !.size = n]]
    ELSE LET r == ReserveOp(m, v, n)
             m2 == UninitializedValueConstructN(r.m, r.v.buf, v.size, n - v.size, 0)
         IN [m |-> m2, v |-> IF Ok(m2) THEN [r.v EXCEPT !.size = n] ELSE r.v]

\* A PushBack that transfers the elements to the new block first and
\* constructs the new element from its argument afterwards.
PushBackTransferFirst(m, v, a) ==
    IF v.cap = v.size
    THEN LET m1 == Allocate(m, GrowthCapacity(v))
             nb == Allocated(m1, GrowthCapacity(v))
             m2 == IF Ok(m1) THEN Reallocate(m1, v, nb) ELSE m1
             m3 == ConstructFromArg(m2, v, a, nb, v.size)
         IN Adopt(m3, v, nb, GrowthCapacity(v), v.size + 1)
    ELSE LET m1 == ConstructFromArg(m, v, a, v.buf, v.size)
         IN [m |-> m1, v |-> IF Ok(m1) THEN [v EXCEPT !.size = @ + 1] ELSE v]

\* Vector::PushBack (both overloads) and Vector::EmplaceBack
PushBackOp(m, v, a) ==
    IF v.cap = v.size
    THEN LET m1 == Allocate(m, GrowthCapacity(v))
             nb == Allocated(m1, GrowthCapacity(v))
             m2 == ConstructFromArg(m1, v, a, nb, v.size)
             m3 == Reallocate(m2, v, nb)
         IN Adopt(m3, v, nb, GrowthCapacity(v), v.size + 1)
    ELSE LET m1 == ConstructFromArg(m, v, a, v.buf, v.size)
         IN [m |-> m1, v |-> IF Ok(m1) THEN [v EXCEPT !.size = @ + 1] ELSE v]

\* Vector::Emplace, the branch data_.Capacity() == size_
EmplaceGrow(m, v, p, a) ==
    LET m1 == Allocate(m, GrowthCapacity(v))
        nb == Allocated(m1, GrowthCapacity(v))
        m2 == ConstructFromArg(m1, v, a, nb, p)
        m3 == IF TransferByMove THEN UninitializedMoveN(m2, v.buf, 0, p, nb, 0, 0)
              ELSE UninitializedCopyN(m2, v.buf, 0, p, nb, 0, 0)
        m4 == IF TransferByMove
              THEN UninitializedMoveN(m3, v.buf, p, v.size - p, nb, p + 1, 0)
              ELSE UninitializedCopyN(m3, v.buf, p, v.size - p, nb, p + 1, 0)
    IN Adopt(m4, v, nb, GrowthCapacity(v), v.size + 1)

\* T new_elem(std::forward<Args>(args)...): a temporary outside the arena.
TempConstruct(m, v, a) ==
    IF Fails(m, ArgFallible(a)) THEN Throw(m)
    ELSE ArgConsumed([m EXCEPT !.f = Tick(m, ArgFallible(a)), !.ctors = @ + 1], v, a)

\* data_[size_ - 1] and new (end()) T(std::forward<T>(data_[size_ - 1])).
\* With size_ == 0 the index wraps around: the assertion of
\* RawMemory::operator[] fails and the object read lies before the block
\* (garbage is what it reads as).
MoveLastToEnd(m, v, garbage) ==
    IF v.size = 0
    THEN ConstructAt(Flag(Flag(m, "assert_index"), "read_out_of_block"),
                     v.buf, 0, garbage, ~NothrowMove)
    ELSE LET m1 == ConstructAt(m, v.buf, v.size, m.h[v.buf][v.size], ~NothrowMove)
         IN IF Ok(m1) THEN [m1 EXCEPT !.h[v.buf][v.size] = Moved] ELSE m1

\* *(begin() + pos_num) = std::forward<T>(new_elem)
AssignFromTemp(m, b, k, val) ==
    IF ~Ok(m) THEN m
    ELSE IF Fails(m, ~NothrowMove) THEN Throw(m)
    ELSE [m EXCEPT !.h[b][k + 1] = val, !.f = Tick(m, ~NothrowMove), !.assigns = @ + 1]

\* Vector::Emplace, the branch data_.Capacity() != size_
EmplaceInPlace(m, v, p, a, garbage) ==
    LET val == ArgValue(m, v, a)
        m1 == TempConstruct(m, v, a)
    IN IF ~Ok(m1) THEN [m |-> m1, v |-> v]
       ELSE LET m2 == MoveLastToEnd(m1, v, garbage)
                m3 == MoveBackward(m2, v.buf, p, v.size - 1, v.size)
                m4 == AssignFromTemp(m3, v.buf, p, val)
                \* ~T() of new_elem, on either way out
                m5 == [m4 EXCEPT !.dtors = @ + 1]
            IN [m |-> m5, v |-> IF Ok(m5) THEN [v EXCEPT !.size = @ + 1] ELSE v]

\* Vector::Emplace (and Vector::Insert, which forwards to it)
EmplaceOp(m, v, p, a, garbage) ==
    IF v.cap = v.size THEN EmplaceGrow(m, v, p, a) ELSE EmplaceInPlace(m, v, p, a, garbage)

\* Vector::Erase
EraseOp(m, v, p) ==
    LET m1 == MoveRange(m, v.buf, p + 1, v.size, p)
    IN IF ~Ok(m1) THEN [m |-> m1, v |-> v]
       ELSE [m |-> DestroyAt(m1, v.buf, v.size - 1), v |-> [v EXCEPT !.size = @ - 1]]

\* Vector::PopBack
PopBackOp(m, v) ==
    IF v.size # 0
    THEN [m |-> DestroyN(m, v.buf, v.size, 1), v |-> [v EXCEPT !.size = @ - 1]]
    ELSE [m |-> m, v |-> v]

\* A copy assignment that always copies rhs and swaps, whatever the capacity.
CopyAssignBySwap(m, v, o) ==
    LET r == CopyConstructOp(m, o)
    IN IF ~Ok(r.m) THEN [m |-> r.m, v |-> v]
       ELSE [m |-> DestructOp(r.m, v).m, v |-> r.v]

\* A copy assignment that, when rhs is shorter, lowers size_ without
\* destroying the elements beyond rhs.size_.
CopyAssignKeepTail(m, v, o) ==
    IF o.size > v.cap
    THEN LET r == CopyConstructOp(m, o)
         IN IF ~Ok(r.m) THEN [m |-> r.m, v |-> v]
            ELSE [m |-> DestructOp(r.m, v).m, v |-> r.v]
    ELSE LET less == IF v.size < o.size THEN v.size ELSE o.size
             m1 == CopyN(m, o.buf, 0, less, v.buf, 0, 0)
             m2 == IF ~Ok(m1) \/ o.size < v.size THEN m1
                   ELSE UninitializedCopyN(m1, o.buf, v.size, o.size - v.size,
                                           v.buf, v.size, 0)
         IN [m |-> m2, v |-> IF Ok(m2) THEN [v EXCEPT !.size = o.size] ELSE v]

\* Vector::operator=(const Vector&), this != &rhs
CopyAssignOp(m, v, o) ==
    IF o.size > v.cap
    THEN LET r == CopyConstructOp(m, o)      \* Vector rhs_copy(rhs)
         IN IF ~Ok(r.m) THEN [m |-> r.m, v |-> v]
            \* Swap(rhs_copy), then ~Vector() of rhs_copy
            ELSE [m |-> DestructOp(r.m, v).m, v |-> r.v]
    ELSE LET less == IF v.size < o.size THEN v.size ELSE o.size
             m1 == CopyN(m, o.buf, 0, less, v.buf, 0, 0)
             m2 == IF ~Ok(m1) THEN m1
                   ELSE IF o.size < v.size
                        THEN DestroyN(m1, v.buf, o.size, v.size - o.size)
                   ELSE UninitializedCopyN(m1, o.buf, v.size, o.size - v.size,
                                           v.buf, v.size, 0)
         IN [m |-> m2, v |-> IF Ok(m2) THEN [v EXCEPT !.size = o.size] ELSE v]

\* RawMemory::operator=(RawMemory&&) and RawMemory(RawMemory&&): the
\* buffer_ and capacity_ of the destination after the move.
RawMemoryMoved(dst, src) == [dst EXCEPT !.buf = src.buf, !.cap = src.cap]
\* A move that copies buffer_ and capacity_ and leaves the source as it was.
RawMemoryKept(src) == src
\* The moved-from RawMemory: std::exchange(rhs.buffer_, nullptr), (rhs.capacity_, 0).
RawMemoryEmptied(src) == [src EXCEPT !.buf = <<>>, !.cap = 0]
\* A RawMemory::Swap that exchanges buffer_ and leaves capacity_.
RawMemorySwapBufferOnly(a, b) == [a EXCEPT !.buf = b.buf]
\* RawMemory::Swap
RawMemorySwapped(a, b) == [a EXCEPT !.buf = b.buf, !.cap = b.cap]

\* ------------------------------------------------------------------ the reference list
\* The elements of a Vector as its user reads them: v[0] .. v[size - 1].
Contents(v) == [k \in 1..v.size |-> v.buf[k]]

InsertAt(l, p, x) == SubSeq(l, 1, p) \o <<x>> \o SubSeq(l, p + 1, Len(l))
RemoveAt(l, p) == SubSeq(l, 1, p) \o SubSeq(l, p + 2, Len(l))
ResizeList(l, n) ==
    IF n <= Len(l) THEN SubSeq(l, 1, n)
    ELSE l \o [k \in 1..(n - Len(l)) |-> DefaultValue]
\* The value an argument denotes, and the list after the argument was
\* consumed (an element passed as T&& is left moved-from).
RefArg(l, a) == IF a.k < 0 THEN a.val ELSE l[a.k + 1]
RefConsumed(l, a) ==
    IF a.kind = "move" /\ a.k >= 0 THEN [l EXCEPT ![a.k + 1] = Moved] ELSE l

\* ------------------------------------------------------------------ actions
\* No call is under way: the last one has returned to its caller.
Idle == [op |-> "none", v |-> 0, w |-> 0, n |-> 0, val |-> DefaultValue, outcome |-> "ok",
         ub |-> {}, allocs |-> 0, frees |-> 0, lost |-> 0, touched |-> FALSE]
Running == lastOp = Idle
Alive(i) == vec[i].alive
Fail == 0..MaxFail

\* Vector i as the call made on it sees it, and as the call it is an
\* argument of sees it: its buffer_ is null exactly when its capacity is 0.
This(i) == [vec[i] EXCEPT !.buf = IF vec[i].cap = 0 THEN Null ELSE Cur]
Other(j) == [vec[j] EXCEPT !.buf = IF vec[j].cap = 0 THEN Null ELSE Src]
\* The machine of a call on Vector i alone, and of one with Vector j as rhs.
On(i, f) == Machine(vec[i].buf, <<>>, f)
OnWith(i, j, f) == Machine(vec[i].buf, vec[j].buf, f)
\* The Vector object a call leaves behind.
Stored(r) == [r.v EXCEPT !.buf = IF r.v.buf = Null THEN <<>> ELSE r.m.h[r.v.buf]]

\* The arguments a call on v can be given: a reference to an object outside
\* the Vector, or a const reference to one of its elements.
External(kind) == {[kind |-> kind, k |-> -1, val |-> x] : x \in Values}
Own(kind, v) == {[kind |-> kind, k |-> j, val |-> DefaultValue] : j \in 0..(v.size - 1)}

\* The record of a call: n and val are the position or count and the value
\* it was given, kept for a call that returned.
Done(op, i, w, n, val, m, outcome) ==
    [op |-> op, v |-> i, w |-> w,
     n |-> IF outcome = "ok" THEN n ELSE 0,
     val |-> IF outcome = "ok" THEN val ELSE DefaultValue,
     outcome |-> outcome, ub |-> m.ub, allocs |-> m.allocs, frees |-> m.frees,
     lost |-> m.lost, touched |-> m.ctors + m.dtors + m.assigns > 0]

Outcome(m) == IF Ok(m) THEN "ok" ELSE "threw"

\* The end of a call on Vector i with result r, f the step chosen to throw
\* (a call with fewer fallible steps than f is the call with f = 0). A call
\* that ran into undefined behaviour either goes on as computed or ends the
\* program. The reference list follows a call that returned; after one that
\* threw it restarts from what the Vector holds.
Commit(op, i, w, n, val, f, r, newref) ==
    /\ f = 0 \/ ~Ok(r.m)
    /\ \E crash \in (IF r.m.ub = {} THEN {FALSE} ELSE BOOLEAN) :
        IF crash
        THEN /\ lastOp' = Done(op, i, w, n, val, r.m, "crashed")
             /\ UNCHANGED <<traits, mem, vec, used, ref>>
        ELSE /\ vec' = [k \in VecIds |->
                        IF k = i THEN Stored(r)
                        ELSE IF k = w THEN [vec[k] EXCEPT !.buf = r.m.h[Src]]
                        ELSE vec[k]]
             /\ used' = r.m.used
             /\ ref' = [ref EXCEPT ![i] = IF Ok(r.m) THEN newref ELSE Contents(Stored(r))]
             /\ lastOp' = Done(op, i, w, n, val, r.m, Outcome(r.m))
             /\ UNCHANGED <<traits, mem>>

\* A call that touches neither an element nor the allocator.
Quiet == Machine(<<>>, <<>>, 0)

DefaultConstruct(i) ==
    /\ Running /\ ~Alive(i)
    /\ Commit("DefaultConstruct", i, 0, 0, DefaultValue, 0,
              [m |-> On(i, 0), v |-> EmptyVector], <<>>)

ConstructN(i, n, f) ==
    /\ Running /\ ~Alive(i)
    /\ Commit("ConstructN", i, 0, n, DefaultValue, f, ConstructNOp(On(i, f), n),
              [k \in 1..n |-> DefaultValue])

CopyConstruct(i, j, f) ==
    /\ Running /\ ~Alive(i) /\ Alive(j) /\ CopyConstructible
    /\ Commit("CopyConstruct", i, j, 0, DefaultValue, f,
              CopyConstructOp(OnWith(i, j, f), Other(j)), ref[j])

\* Vector(Vector&& other)
MoveConstruct(i, j) ==
    /\ Running /\ ~Alive(i) /\ Alive(j)
    /\ vec' = [vec EXCEPT ![i] = [RawMemoryMoved([vec[i] EXCEPT !.alive = TRUE], vec[j]) EXCEPT !.size = vec[j].size],
                          ![j] = [RawMemoryEmptied(vec[j]) EXCEPT !.size = 0]]
    /\ ref' = [ref EXCEPT ![i] = ref[j], ![j] = <<>>]
    /\ lastOp' = Done("MoveConstruct", i, j, 0, DefaultValue, Quiet, "ok")
    /\ UNCHANGED <<traits, mem, used>>

Destruct(i) ==
    /\ Running /\ Alive(i)
    /\ Commit("Destruct", i, 0, 0, DefaultValue, 0, DestructOp(On(i, 0), This(i)), <<>>)

Reserve(i, n, f) ==
    /\ Running /\ Alive(i)
    /\ Commit("Reserve", i, 0, n, DefaultValue, f, ReserveOp(On(i, f), This(i), n), ref[i])

Resize(i, n, f) ==
    /\ Running /\ Alive(i)
    /\ Commit("Resize", i, 0, n, DefaultValue, f, ResizeOp(On(i, f), This(i), n),
              ResizeList(ref[i], n))

PushBackWith(op, i, a, f) ==
    Commit(op, i, 0, vec[i].size, ArgValue(On(i, f), This(i), a), f,
           PushBackOp(On(i, f), This(i), a),
           Append(RefConsumed(ref[i], a), RefArg(ref[i], a)))

\* PushBack(const T& value)
PushBackCopy(i, f) ==
    /\ Running /\ Alive(i) /\ CopyConstructible
    /\ \E a \in External("copy") \cup Own("copy", vec[i]) : PushBackWith("PushBack", i, a, f)

\* PushBack(T&& value)
PushBackMove(i, f) ==
    /\ Running /\ Alive(i)
    /\ \E a \in External("move") : PushBackWith("PushBack", i, a, f)

EmplaceBack(i, f) ==
    /\ Running /\ Alive(i)
    /\ \E a \in External("args") : PushBackWith("EmplaceBack", i, a, f)

\* What a read before the block can yield; a call that makes none reads nothing.
Garbage(v) == IF v.size = 0 /\ v.cap # 0 THEN Objects ELSE {DefaultValue}

EmplaceWith(i, p, a, f) ==
    \E g \in Garbage(vec[i]) :
        Commit("Emplace", i, 0, p, ArgValue(On(i, f), This(i), a), f,
               EmplaceOp(On(i, f), This(i), p, a, g),
               InsertAt(RefConsumed(ref[i], a), p, RefArg(ref[i], a)))

\* Insert(const_iterator pos, const T& value)
InsertCopy(i, f) ==
    /\ Running /\ Alive(i) /\ CopyConstructible
    /\ \E p \in 0..vec[i].size, a \in External("copy") \cup Own("copy", vec[i]) :
           EmplaceWith(i, p, a, f)

\* Insert(const_iterator pos, T&& value)
InsertMove(i, f) ==
    /\ Running /\ Alive(i)
    /\ \E p \in 0..vec[i].size, a \in External("move") : EmplaceWith(i, p, a, f)

Emplace(i, f) ==
    /\ Running /\ Alive(i)
    /\ \E p \in 0..vec[i].size, a \in External("args") : EmplaceWith(i, p, a, f)

Erase(i, f) ==
    /\ Running /\ Alive(i)
    /\ \E p \in 0..(vec[i].size - 1) :
           Commit("Erase", i, 0, p, DefaultValue, f, EraseOp(On(i, f), This(i), p),
                  RemoveAt(ref[i], p))

PopBack(i) ==
    /\ Running /\ Alive(i)
    /\ Commit("PopBack", i, 0, 0, DefaultValue, 0, PopBackOp(On(i, 0), This(i)),
              SubSeq(ref[i], 1, Len(ref[i]) - 1))

\* Vector::operator[] used to write an element: v[k] = x
WriteAt(i, x) ==
    /\ Running /\ Alive(i)
    /\ \E k \in 0..(vec[i].size - 1) :
           /\ vec' = [vec EXCEPT ![i].buf[k + 1] = x]
           /\ ref' = [ref EXCEPT ![i][k + 1] = x]
           /\ lastOp' = Done("WriteAt", i, 0, k, x, [Quiet EXCEPT !.assigns = 1], "ok")
    /\ UNCHANGED <<traits, mem, used>>

CopyAssign(i, j, f) ==
    /\ Running /\ Alive(i) /\ Alive(j) /\ CopyConstructible
    /\ IF i = j
       THEN Commit("CopyAssign", i, j, 0, DefaultValue, f,
                   [m |-> On(i, f), v |-> This(i)], ref[i])
       ELSE Commit("CopyAssign", i, j, 0, DefaultValue, f,
                   CopyAssignOp(OnWith(i, j, f), This(i), Other(j)), ref[j])

\* Vector::operator=(Vector&&)
MoveAssign(i, j) ==
    /\ Running /\ Alive(i) /\ Alive(j)
    /\ vec' = IF i = j THEN vec
              ELSE [vec EXCEPT ![i] = [RawMemoryMoved(vec[i], vec[j]) EXCEPT !.size = vec[j].size],
                               ![j] = [RawMemoryEmptied(vec[j]) EXCEPT !.size = 0]]
    /\ ref' = IF i = j THEN ref ELSE [ref EXCEPT ![i] = ref[j], ![j] = <<>>]
    /\ lastOp' = Done("MoveAssign", i, j, 0, DefaultValue, Quiet, "ok")
    /\ UNCHANGED <<traits, mem, used>>

\* A Swap that exchanges the blocks and leaves each size_ where it was.
SwapDataOnly(i, j) ==
    /\ Running /\ Alive(i) /\ Alive(j)
    /\ vec' = [vec EXCEPT ![i] = RawMemorySwapped(vec[i], vec[j]),
                          ![j] = RawMemorySwapped(vec[j], vec[i])]
    /\ ref' = [ref EXCEPT ![i] = ref[j], ![j] = ref[i]]
    /\ lastOp' = Done("Swap", i, j, 0, DefaultValue, Quiet, "ok")
    /\ UNCHANGED <<traits, mem, used>>

\* Vector::Swap
Swap(i, j) ==
    /\ Running /\ Alive(i) /\ Alive(j)
    /\ vec' = [vec EXCEPT ![i] = [RawMemorySwapped(vec[i], vec[j]) EXCEPT !.size = vec[j].size],
                          ![j] = [RawMemorySwapped(vec[j], vec[i]) EXCEPT !.size = vec[i].size]]
    /\ ref' = [ref EXCEPT ![i] = ref[j], ![j] = ref[i]]
    /\ lastOp' = Done("Swap", i, j, 0, DefaultValue, Quiet, "ok")
    /\ UNCHANGED <<traits, mem, used>>

\* The call recorded in lastOp returns to its caller, or its exception
\* reaches it; a program that crashed goes nowhere.
Return ==
    /\ lastOp # Idle /\ lastOp.outcome # "crashed"
    /\ lastOp' = Idle
    /\ UNCHANGED <<traits, mem, vec, used, ref>>

\* ------------------------------------------------------------------ specification
Start(slots) ==
    /\ traits \in Traits
    /\ mem = slots
    /\ vec = [i \in VecIds |-> [alive |-> FALSE, buf |-> <<>>, cap |-> 0, size |-> 0]]
    /\ used = 0
    /\ ref = [i \in VecIds |-> <<>>]
    /\ lastOp = Idle

\* The calls a program can make on one of the Vectors of V.
Solo(V) ==
    \/ \E i \in V : DefaultConstruct(i)
    \/ \E i \in V, n \in 0..MaxCap, f \in Fail : ConstructN(i, n, f)
    \/ \E i \in V : Destruct(i)
    \/ \E i \in V, n \in 0..MaxCap, f \in Fail : Reserve(i, n, f)
    \/ \E i \in V, n \in 0..MaxCap, f \in Fail : Resize(i, n, f)
    \/ \E i \in V, f \in Fail : PushBackCopy(i, f)
    \/ \E i \in V, f \in Fail : PushBackMove(i, f)
    \/ \E i \in V, f \in Fail : EmplaceBack(i, f)
    \/ \E i \in V, f \in Fail : InsertCopy(i, f)
    \/ \E i \in V, f \in Fail : InsertMove(i, f)
    \/ \E i \in V, f \in Fail : Emplace(i, f)
    \/ \E i \in V, f \in Fail : Erase(i, f)
    \/ \E i \in V : PopBack(i)
    \/ \E i \in V, x \in Values : WriteAt(i, x)

\* The calls that take another Vector (or the same one) as their argument.
Pair(V) ==
    \/ \E i, j \in V, f \in Fail : CopyConstruct(i, j, f)
    \/ \E i, j \in V : MoveConstruct(i, j)
    \/ \E i, j \in V, f \in Fail : CopyAssign(i, j, f)
    \/ \E i, j \in V : MoveAssign(i, j)
    \/ \E i, j \in V : Swap(i, j)

\* A program with two Vectors.
Init == Start(MemSlots)
Next == Solo(VecIds) \/ Pair(VecIds) \/ Return
Spec == Init /\ [][Next]_vars

\* A program with one Vector and more memory, so that it grows further.
InitOne == Start(MemSlotsOne)
NextOne == Solo({1}) \/ Return
SpecOne == InitOne /\ [][NextOne]_vars

\* A program that makes only the calls a list is replayed against:
\* PushBack, Insert, Erase and Resize on one Vector.
NextReplay ==
    \/ DefaultConstruct(1)
    \/ \E f \in Fail : PushBackCopy(1, f)
    \/ \E f \in Fail : PushBackMove(1, f)
    \/ \E f \in Fail : InsertCopy(1, f)
    \/ \E f \in Fail : InsertMove(1, f)
    \/ \E f \in Fail : Erase(1, f)
    \/ \E n \in 0..MaxCap, f \in Fail : Resize(1, n, f)
    \/ Return
SpecReplay == InitOne /\ [][NextReplay]_vars

\* A program with Vector 2 as a source, only constructed and reserved, and
\* Vector 1 copy-constructed from it, copy-assigned from it, and changed
\* by every call on a single Vector.
NextSource ==
    \/ Solo({1})
    \/ \E n \in 0..MaxCap, f \in Fail : ConstructN(2, n, f)
    \/ \E n \in 0..MaxCap, f \in Fail : Reserve(2, n, f)
    \/ \E f \in Fail : CopyConstruct(1, 2, f)
    \/ \E f \in Fail : CopyAssign(1, 2, f)
    \/ Return
SpecSource == Start(MemSlotsPair) /\ [][NextSource]_vars

\* Two calls in a row on Vector i, none of whose element operations throws
\* (the allocation may fail): v.Insert(v.begin() + p, x); v.Erase(v.begin() + p)
InsertThenErase(i) ==
    /\ Running /\ Alive(i)
    /\ \E p \in 0..vec[i].size, g \in Garbage(vec[i]),
          a \in External("move") \cup (IF CopyConstructible THEN External("copy") ELSE {}) :
           LET r1 == EmplaceOp(On(i, 0), This(i), p, a, g)
               r2 == IF Ok(r1.m) THEN EraseOp(r1.m, r1.v, p) ELSE r1
           IN Commit("InsertThenErase", i, 0, p, a.val, 0, r2, ref[i])

\* s = v.Size(); v.Resize(n); v.Resize(s), with n > s
ResizeAndBack(i) ==
    /\ Running /\ Alive(i)
    /\ \E n \in (vec[i].size + 1)..MaxCap :
           LET r1 == ResizeOp(On(i, 0), This(i), n)
               r2 == IF Ok(r1.m) THEN ResizeOp(r1.m, r1.v, vec[i].size) ELSE r1
           IN Commit("ResizeAndBack", i, 0, n, DefaultValue, 0, r2, ref[i])

\* A program with one Vector that also makes these pairs of calls.
NextRoundTrip == NextOne \/ InsertThenErase(1) \/ ResizeAndBack(1)
SpecRoundTrip == InitOne /\ [][NextRoundTrip]_vars

\* Calls whose argument is an element of the Vector they are made on:
\* v.PushBack(v[k]) and v.PushBack(std::move(v[k]))
OwnElement(i) ==
    Own("move", vec[i]) \cup (IF CopyConstructible THEN Own("copy", vec[i]) ELSE {})

PushBackElement(i, f) ==
    /\ Running /\ Alive(i)
    /\ \E a \in OwnElement(i) : PushBackWith("PushBackElement", i, a, f)

\* v.Insert(v.begin() + p, v[k]) and v.Insert(v.begin() + p, std::move(v[k]))
InsertElement(i, f) ==
    /\ Running /\ Alive(i)
    /\ \E p \in 0..vec[i].size, a \in OwnElement(i), g \in Garbage(vec[i]) :
           Commit("InsertElement", i, 0, p, ArgValue(On(i, f), This(i), a), f,
                  EmplaceOp(On(i, f), This(i), p, a, g),
                  InsertAt(RefConsumed(ref[i], a), p, RefArg(ref[i], a)))

\* A program with one Vector that also makes these calls.
NextAlias ==
    \/ NextOne
    \/ \E f \in Fail : PushBackElement(1, f)
    \/ \E f \in Fail : InsertElement(1, f)
SpecAlias == InitOne /\ [][NextAlias]_vars

\* ------------------------------------------------------------------ claims
\* What the claims speak of: the Vector a call was made on, and whether
\* the call returned.
Returned(op) == lastOp.op = op /\ lastOp.outcome = "ok"

\* C1: after any sequence of PushBack, Insert, Erase and Resize calls the
\* size and the elements of a Vector are those of the reference list the
\* same calls were replayed on.
C1_ReplayMatchesReference ==
    \A i \in VecIds : vec[i].alive => Contents(vec[i]) = ref[i]

\* C2: in every reachable state exactly the slots [0, size) of a Vector's
\* block hold live elements, and every slot of [size, capacity) is
\* uninitialized.
C2_LiveExactlyBelowSize ==
    \A i \in VecIds : vec[i].alive =>
        \A k \in 1..Len(vec[i].buf) : (vec[i].buf[k] # Uninit) <=> (k <= vec[i].size)

\* C3: in every reachable state 0 <= size <= capacity, for every Vector
\* object, the source and the destination of a move, a swap or an
\* assignment included.
C3_SizeWithinCapacity ==
    \A i \in VecIds : 0 <= vec[i].size /\ vec[i].size <= vec[i].cap

\* A swap of two Vectors of different sizes has given the Vector it was
\* called on the elements of the other.
C3_Witness ==
    /\ lastOp.op = "Swap"
    /\ lastOp.v # lastOp.w
    /\ vec[lastOp.v].size > 0
    /\ vec[lastOp.v].size # vec[lastOp.w].size


\* C4: PopBack on a Vector with size > 0 destroys the element of slot
\* size - 1 and no other slot, takes one off size and leaves capacity and
\* the elements below unchanged; on an empty Vector it changes nothing.
C4_PopBackDestroysLast ==
    [][lastOp'.op = "PopBack" =>
        LET i == lastOp'.v
            v == vec[i]
        IN IF v.size > 0
           THEN /\ lastOp'.ub = {}
                /\ vec'[i] = [v EXCEPT !.size = @ - 1, !.buf[v.size] = Uninit]
           ELSE vec'[i] = v]_vars

\* A call that had to grow the block and threw.
GrowthFailed(i) ==
    /\ lastOp'.v = i
    /\ lastOp'.outcome = "threw"
    /\ \/ lastOp'.op = "Reserve"
       \/ /\ lastOp'.op \in {"PushBack", "EmplaceBack", "Emplace"}
          /\ vec[i].size = vec[i].cap

\* C5 as stated: after a growing PushBack, EmplaceBack, Emplace, Insert or
\* Reserve that failed, size, capacity and the element values are those
\* before the call, whatever the element type.
C5_StrongGuaranteeAllTypes ==
    [][\A i \in VecIds : GrowthFailed(i) => vec'[i] = vec[i]]_vars

\* C5: after a growing PushBack, EmplaceBack, Emplace, Insert or Reserve
\* that failed, size and capacity are those before the call and the block
\* is the old one; the element values are those before the call when the
\* element type is copy constructible or its move constructor cannot
\* throw, or when the allocation failed; for a move-only type with a
\* throwing move constructor each element has its value or is moved-from.
C5_StrongGuarantee ==
    [][\A i \in VecIds : GrowthFailed(i) =>
        /\ vec'[i].size = vec[i].size
        /\ vec'[i].cap = vec[i].cap
        /\ Len(vec'[i].buf) = Len(vec[i].buf)
        /\ IF CopyConstructible \/ NothrowMove \/ lastOp'.allocs = 0
           THEN vec'[i].buf = vec[i].buf
           ELSE \A k \in 1..Len(vec[i].buf) :
                    vec'[i].buf[k] \in {vec[i].buf[k], Moved}]_vars

\* A growing PushBack threw while a copy of an element was made into the
\* new block, which already held the new element.
C5_Witness ==
    /\ lastOp.op = "PushBack" /\ lastOp.outcome = "threw"
    /\ traits = "copy_fallback"
    /\ lastOp.allocs = 1 /\ lastOp.frees = 1 /\ lastOp.lost = 1
    /\ vec[lastOp.v].size = 2 /\ vec[lastOp.v].cap = 2

\* C6: after a = std::move(b), a # b, a holds the block, size and elements
\* b had, b is empty with capacity 0, and the elements a had were destroyed
\* and its block was deallocated.
C6_MoveAssignReleases ==
    [][(lastOp'.op = "MoveAssign" /\ lastOp'.v # lastOp'.w) =>
        LET a == lastOp'.v
            b == lastOp'.w
        IN /\ vec'[a].buf = vec[b].buf
           /\ vec'[a].cap = vec[b].cap
           /\ vec'[a].size = vec[b].size
           /\ vec'[b].size = 0 /\ vec'[b].cap = 0
           /\ used' = used - vec[a].cap
           /\ vec[a].size > 0 => lastOp'.touched]_vars

Max(a, b) == IF a >= b THEN a ELSE b

\* C7: a PushBack, EmplaceBack, Emplace or Insert allocates a block only
\* if size was equal to capacity; one that returns has allocated a block
\* if and only if size was equal to capacity, and the capacity is then
\* max(1, 2 * C), C the capacity before; otherwise the capacity is unchanged.
C7_GrowthPolicy ==
    [][lastOp'.op \in {"PushBack", "EmplaceBack", "Emplace"} =>
        LET i == lastOp'.v
            C == vec[i].cap
        IN /\ lastOp'.allocs > 0 => vec[i].size = C
           /\ lastOp'.outcome = "ok" =>
                IF vec[i].size = C
                THEN lastOp'.allocs = 1 /\ vec'[i].cap = Max(1, 2 * C)
                ELSE lastOp'.allocs = 0 /\ vec'[i].cap = C]_vars

\* An insertion into a full Vector of capacity 2 has grown it to 4.
C7_Witness ==
    /\ Returned("Emplace") /\ lastOp.allocs = 1
    /\ vec[lastOp.v].cap = 4 /\ vec[lastOp.v].size = 3

\* C8: no PushBack, EmplaceBack, Emplace, Insert, Erase, PopBack, Resize,
\* Reserve or copy assignment lowers the capacity of the Vector it is made
\* on, and none allocates more than one block.
C8_CapacityMonotonic ==
    [][lastOp'.op \in {"PushBack", "EmplaceBack", "Emplace", "Erase", "PopBack",
                       "Resize", "Reserve", "CopyAssign"} =>
        /\ vec'[lastOp'.v].cap >= vec[lastOp'.v].cap
        /\ lastOp'.allocs <= 1]_vars

\* A copy assignment from a longer Vector has replaced a block of one
\* slot by one of two, with one allocation.
C8_Witness ==
    /\ Returned("CopyAssign") /\ lastOp.v # lastOp.w
    /\ lastOp.allocs = 1 /\ lastOp.frees = 1
    /\ vec[lastOp.v].cap = 2 /\ vec[lastOp.v].size = 2

\* C9: an Emplace or Insert at p, 0 <= p <= size, whatever size and
\* capacity are, leaves the elements below p as they were, puts the new
\* value at p, moves every element from p on one up with its value (none
\* is left moved-from) and adds one to size.
C9_EmplaceInserts ==
    [][(lastOp'.op = "Emplace" /\ lastOp'.outcome # "threw") =>
        LET i == lastOp'.v
        IN /\ lastOp'.outcome = "ok" /\ lastOp'.ub = {}
           /\ Contents(vec'[i]) = InsertAt(Contents(vec[i]), lastOp'.n, lastOp'.val)]_vars

C11_MoveConstructTransfers ==
    [][lastOp'.op = "MoveConstruct" =>
        LET s2 == lastOp'.v
            s1 == lastOp'.w
        IN /\ vec'[s2].alive
           /\ vec'[s2].buf = vec[s1].buf
           /\ vec'[s2].cap = vec[s1].cap
           /\ vec'[s2].size = vec[s1].size
           /\ vec'[s1] = [alive |-> TRUE, buf |-> <<>>, cap |-> 0, size |-> 0]
           /\ ~lastOp'.touched /\ lastOp'.allocs = 0 /\ lastOp'.frees = 0
           /\ lastOp'.outcome = "ok" /\ used' = used]_vars

\* A Vector was move-constructed from one with an element and a spare slot.
C11_Witness ==
    /\ Returned("MoveConstruct")
    /\ vec[lastOp.v].size = 1 /\ vec[lastOp.v].cap = 2
    /\ vec[lastOp.v].buf[1] = 1
    /\ vec[lastOp.w].cap = 0

Stray(v) == Cardinality({k \in (v.size + 1)..Len(v.buf) : v.buf[k] # Uninit})

\* C13: a Reserve(n) that returned with n <= capacity changed nothing; with
\* n > capacity the capacity is n, size and the elements of [0, size) are
\* those before the call, the slots beyond are uninitialized, one block
\* was allocated, the old block was deallocated, and each of the size
\* elements of the old block was destroyed before that.
C13_Reserve ==
    [][(lastOp'.op = "Reserve" /\ lastOp'.outcome = "ok") =>
        LET i == lastOp'.v
            n == lastOp'.n
            v == vec[i]
        IN IF n <= v.cap
           THEN /\ vec'[i] = v /\ used' = used
                /\ ~lastOp'.touched /\ lastOp'.allocs = 0 /\ lastOp'.frees = 0
           ELSE /\ vec'[i].cap = n /\ Len(vec'[i].buf) = n
                /\ vec'[i].size = v.size
                /\ Contents(vec'[i]) = Contents(v)
                /\ Stray(vec'[i]) = 0
                /\ lastOp'.allocs = 1
                /\ lastOp'.frees = (IF v.cap = 0 THEN 0 ELSE 1)
                /\ used' = used - v.cap + n
                /\ lastOp'.lost = Stray(v)]_vars

\* A Reserve(3) moved two elements, one of them 1, from a block of two
\* slots to one of three.
C13_Witness ==
    /\ Returned("Reserve") /\ lastOp.n = 3
    /\ lastOp.allocs = 1 /\ lastOp.frees = 1 /\ lastOp.lost = 0
    /\ vec[lastOp.v].size = 2 /\ vec[lastOp.v].cap = 3
    /\ vec[lastOp.v].buf[2] = 1 /\ vec[lastOp.v].buf[3] = Uninit

\* C14: Insert at p, 0 <= p <= size, followed by Erase at p leaves the
\* Vector with the size and the element values it had before the two
\* calls.
C14_InsertEraseRestores ==
    [][(lastOp'.op = "InsertThenErase" /\ lastOp'.outcome = "ok") =>
        LET i == lastOp'.v
        IN /\ vec'[i].size = vec[i].size
           /\ Contents(vec'[i]) = Contents(vec[i])]_vars

\* C15: Resize(n) with n > size followed by Resize back to the old size s
\* leaves size s and the elements of [0, s) with their values, and the
\* slots of [s, n), value-constructed by the first call, destroyed by the
\* second.
C15_ResizeBackRestores ==
    [][(lastOp'.op = "ResizeAndBack" /\ lastOp'.outcome = "ok") =>
        LET i == lastOp'.v
            s == vec[i].size
        IN /\ vec'[i].size = s
           /\ Contents(vec'[i]) = Contents(vec[i])
           /\ lastOp'.touched /\ lastOp'.ub = {}
           /\ \A k \in (s + 1)..lastOp'.n : vec'[i].buf[k] = Uninit]_vars

\* A Vector of two elements, one of them 1, was resized to 3, into a new
\* block, and back to 2.
C15_Witness ==
    /\ Returned("ResizeAndBack") /\ lastOp.n = 3 /\ lastOp.allocs = 1
    /\ vec[lastOp.v].size = 2 /\ vec[lastOp.v].cap = 3
    /\ vec[lastOp.v].buf[1] = 1 /\ vec[lastOp.v].buf[3] = Uninit

\* C16: Swap gives each of two Vectors the block, capacity, size and
\* elements the other had; it constructs, destroys, copies and moves no
\* element and neither allocates nor deallocates.
C16_SwapExchanges ==
    [][lastOp'.op = "Swap" =>
        LET a == lastOp'.v
            b == lastOp'.w
        IN /\ vec'[a] = vec[b]
           /\ vec'[b] = vec[a]
           /\ \A k \in VecIds \ {a, b} : vec'[k] = vec[k]
           /\ ~lastOp'.touched /\ lastOp'.allocs = 0 /\ lastOp'.frees = 0
           /\ lastOp'.outcome = "ok" /\ lastOp'.ub = {} /\ used' = used]_vars

\* Two Vectors of different capacity and different elements were swapped.
C16_Witness ==
    /\ Returned("Swap") /\ lastOp.v # lastOp.w
    /\ vec[lastOp.v].cap = 1 /\ vec[lastOp.v].buf = <<0>>
    /\ vec[lastOp.w].cap = 2 /\ vec[lastOp.w].size = 1 /\ vec[lastOp.w].buf[1] = 1

\* A Vector in a valid state: size <= capacity and exactly the slots of
\* [0, size) hold live elements.
WellFormed(v) ==
    /\ v.size <= v.cap
    /\ \A k \in 1..Len(v.buf) : (v.buf[k] # Uninit) <=> (k <= v.size)

\* A call on Vector i that allocated nothing and threw, all its steps
\* having had defined behaviour.
InPlaceFailed(i) ==
    /\ lastOp'.v = i
    /\ lastOp'.outcome = "threw" /\ lastOp'.allocs = 0 /\ lastOp'.ub = {}
    /\ \/ lastOp'.op \in {"Erase", "CopyAssign", "Resize"}
       \/ /\ lastOp'.op \in {"PushBack", "EmplaceBack", "Emplace"}
          /\ vec[i].size < vec[i].cap

\* C17: when a construction or an assignment of an element throws in a
\* call that does not reallocate (Emplace, Insert, PushBack, EmplaceBack
\* below capacity, Erase, copy assignment and Resize within capacity), a
\* Vector that was in a valid state is left in a valid state: no
\* constructed element lies at or beyond size.
C17_BasicGuarantee ==
    [][\A i \in VecIds : (WellFormed(vec[i]) /\ InPlaceFailed(i)) => WellFormed(vec'[i])]_vars

\* C18: when a PushBack or an Insert that has to grow the block is given
\* an element of the Vector itself, by const reference or by rvalue
\* reference, the element inserted has the value that element had before
\* the call, and every other element has its value or, if it was the
\* argument of a move, is moved-from; under the move and under the copy
\* transfer policy.
C18_NewElementFirst ==
    [][(/\ lastOp'.op \in {"PushBackElement", "InsertElement"}
        /\ lastOp'.outcome = "ok"
        /\ vec[lastOp'.v].size = vec[lastOp'.v].cap) =>
        LET i == lastOp'.v
            p == lastOp'.n
            old == Contents(vec[i])
            new == Contents(vec'[i])
        IN /\ Len(new) = Len(old) + 1
           /\ \E k \in 1..Len(old) : old[k] = lastOp'.val
           /\ new[p + 1] = lastOp'.val
           /\ \A j \in 1..Len(old) :
                  new[IF j <= p THEN j ELSE j + 1] \in {old[j], Moved}
           /\ lastOp'.ub = {}]_vars

\* A full Vector of two elements was given its own element 1 to insert at
\* the front and moved its elements to a block of four slots.
C18_Witness ==
    /\ Returned("InsertElement") /\ lastOp.n = 0 /\ lastOp.val = 1
    /\ lastOp.allocs = 1 /\ traits = "nothrow_move"
    /\ vec[lastOp.v].size = 3 /\ vec[lastOp.v].cap = 4
    /\ vec[lastOp.v].buf[1] = 1 /\ vec[lastOp.v].buf[2] = 0

\* C19: no call loses a constructed element without running its
\* destructor, none runs a destructor on an uninitialized slot or on a
\* slot outside the block, and once every Vector has been destroyed every
\* block that was allocated has been deallocated.
C19_NothingLeaked ==
    /\ lastOp.lost = 0
    /\ lastOp.ub \cap {"destroy_uninitialized", "destroy_out_of_block"} = {}
    /\ (\A i \in VecIds : ~vec[i].alive) => used = 0

\* C20: no call fails an assertion of RawMemory: every slot the call
\* dereferences has an index below the capacity, on a Vector with size 0
\* and capacity > 0 too.
C20_AssertionsHold ==
    "assert_index" \notin lastOp.ub

====
